---------------------------- MODULE Spec2Model ----------------------------
(***************************************************************************)
(* A model of anilist_tools: the request primitive and the pagination      *)
(* engine of utils.py, and the lookups, the intersection and the affinity  *)
(* tally of compare_staff.py.                                              *)
(*                                                                         *)
(* JSON values are tagged records: Null, Bool(b), List(xs) and Obj(kv),    *)
(* an object being the sequence of its key/value pairs in insertion order  *)
(* (a Python dict iterates in that order).  A Python dict built by the     *)
(* program is modelled the same way, as a sequence of entries with         *)
(* distinct keys.                                                          *)
(***************************************************************************)
EXTENDS Integers, Sequences, FiniteSets, TLC

VARIABLES
    op,                  \* the operation the caller started
    pc,                  \* the position of the program
    post_json,           \* safe_post_request's arguments (post_json, oauth_token)
    response,            \* safe_post_request's local `response`
    ret,                 \* the value safe_post_request returned to its caller
    variables,           \* depaginated_request's argument
    paginated_variables, \* depaginated_request's local
    page_num,            \* depaginated_request's local
    out_list,            \* depaginated_request's local
    result,              \* what the operation returned
    outcome,             \* how the operation ended
    total_queries,       \* the attribute safe_post_request.total_queries
    report,              \* what the caller's diagnostic report did
    sent,                \* history: every HTTP POST issued, with the status it got
    callStart,           \* history: Len(sent) when the current send call began
    n429,                \* history: 429 responses received by the current send call
    waits,               \* history: sleeps of the current send call
    slept,               \* history: seconds slept since the latest POST
    shape,               \* environment: the response shape of the running query
    served,              \* environment: the pages the server answered with success
    limited              \* environment: the 429 responses the server has given

VARIABLES
    show_staff_dicts,    \* main's list of the shows' staff dicts
    common_staff_ids,    \* main's local: the result of dict_intersection
    ipc                  \* the position of the comparison

VARIABLES
    show_ids,            \* main's list: show_ids[1] is the given show
    roster,              \* the keys of show_production_staff_dicts[0], in order
    top,                 \* args.top
    staff_index,         \* how many staff ids the tally loop has processed
    show_counts,         \* main's Counter, as its entries in insertion order
    top_shows,           \* main's local
    tpc,                 \* the position of the affinity search
    toutcome,            \* how the affinity search ended
    fetched              \* environment: the credits the server listed, per staff id

VARIABLES
    edge_list,           \* the list depaginated_request returned to the roster lookup
    lookup,              \* which roster lookup runs: "staff" or "voice"
    edge_index,          \* how many edges the lookup's loop has processed
    entity_dict,         \* staff_dict or vas_dict, as its entries in insertion order
    mpc,                 \* the position of the roster lookup
    mret                 \* what the roster lookup returned

reqVars == <<op, pc, post_json, response, ret, variables, paginated_variables, page_num,
             out_list, result, outcome, total_queries, report, sent, callStart,
             n429, waits, slept, shape, served, limited>>

isectVars == <<show_staff_dicts, common_staff_ids, ipc>>

tallyVars == <<show_ids, roster, top, staff_index, show_counts, top_shows, tpc,
               toutcome, fetched>>

mapVars == <<edge_list, lookup, edge_index, entity_dict, mpc, mret>>

vars == <<reqVars, isectVars, tallyVars, mapVars>>

-----------------------------------------------------------------------------
(* Bounds of the model.                                                    *)

\* the server reports hasNextPage = TRUE only for pages below MaxPages
MaxPages == 3
\* wrapper records around the pageInfo record: 0 .. MaxDepth
MaxDepth == 3
\* 429 responses the server gives in one run
MaxRetries == 2

-----------------------------------------------------------------------------
(* JSON values.                                                            *)

Null == [t |-> "null"]
Bool(b) == [t |-> "bool", b |-> b]
List(xs) == [t |-> "list", xs |-> xs]
Obj(kv) == [t |-> "obj", kv |-> kv]
KV(k, v) == [k |-> k, v |-> v]

\* `k in d`
HasKey(d, k) == \E i \in 1..Len(d.kv) : d.kv[i].k = k
\* `d[k]`
Get(d, k) == d.kv[CHOOSE i \in 1..Len(d.kv) : d.kv[i].k = k].v

\* the Python value None where a string is expected
None == "None"

-----------------------------------------------------------------------------
(* The environment: the AniList server.                                    *)

Items == {"a", "b"}
\* the item sequences one page may carry: empty, repeated and ordered items
ItemSeqs == {<<>>, <<"a", "a">>, <<"a", "b">>}

WrapKey(d) == IF d = 1 THEN "staff" ELSE "Media"

RECURSIVE Wrap(_, _)
\* `inner` below d single-key wrapper records
Wrap(d, inner) ==
    IF d = 0 THEN inner ELSE Obj(<<KV(WrapKey(d), Wrap(d - 1, inner))>>)

PageInfo(h) == Obj(<<KV("hasNextPage", Bool(h))>>)

\* a well-formed innermost record: pageInfo and one data field, in either order
GoodFinal(items, h, order) ==
    IF order = "pageInfoFirst"
    THEN Obj(<<KV("pageInfo", PageInfo(h)), KV("edges", List(items))>>)
    ELSE Obj(<<KV("edges", List(items)), KV("pageInfo", PageInfo(h))>>)

MalformedKinds ==
    {"zeroKeys", "onlyPageInfo", "threeKeysFinal", "twoKeysUnwrap",
     "threeKeysUnwrap", "nullInner"}

\* an innermost record that breaks the page envelope's shape
BadFinal(kind) ==
    CASE kind = "zeroKeys" -> Obj(<<>>)
      [] kind = "onlyPageInfo" -> Obj(<<KV("pageInfo", PageInfo(FALSE))>>)
      [] kind = "threeKeysFinal" ->
            Obj(<<KV("nodes", List(<<"b">>)), KV("pageInfo", PageInfo(FALSE)),
                  KV("edges", List(<<"a">>))>>)
      [] kind = "twoKeysUnwrap" ->
            Obj(<<KV("staff", Wrap(1, GoodFinal(<<"a">>, FALSE, "pageInfoFirst"))),
                  KV("characters", Wrap(1, GoodFinal(<<"b">>, FALSE, "pageInfoFirst")))>>)
      [] kind = "threeKeysUnwrap" ->
            Obj(<<KV("id", Null), KV("title", Null),
                  KV("staff", Wrap(1, GoodFinal(<<"a">>, FALSE, "pageInfoFirst")))>>)
      [] kind = "nullInner" -> Null

\* what the server may put in the body of a page: [kind, items, hnp, data]
\* (kind, items and hnp are what the server built; data is what it sends)
Pages(page, sh) ==
    {[kind |-> "good", items |-> xs, hnp |-> h,
      data |-> Wrap(sh.depth, GoodFinal(xs, h, sh.order))] :
        xs \in ItemSeqs,
        h \in IF page < MaxPages THEN BOOLEAN ELSE {FALSE}}
    \cup
    {[kind |-> k, items |-> <<>>, hnp |-> FALSE,
      data |-> Wrap(sh.depth, BadFinal(k))] : k \in MalformedKinds}

\* a show as the API returns it: either title may be null
Media(id, english, romaji) ==
    [t |-> "media", id |-> id, english |-> english, romaji |-> romaji]

ShowBodies ==
    {Null} \cup
    {Obj(<<KV("Media", Media(10, e, r))>>) : e \in {None, "Show"}, r \in {None, "Shou"}}

StudioEdge(id, name, isMain) == [id |-> id, name |-> name, isMain |-> isMain]

StudioEdgeSeqs ==
    {<<>>,
     <<StudioEdge(2, "Sub", FALSE), StudioEdge(1, "Main", TRUE)>>,
     <<StudioEdge(1, "Main", TRUE), StudioEdge(1, "Main", FALSE)>>}

StudioBodies ==
    {Null} \cup
    {Obj(<<KV("Media", Obj(<<KV("studios", Obj(<<KV("edges", List(es))>>))>>))>>) :
        es \in StudioEdgeSeqs}

RawBodies == {Null, Obj(<<KV("Viewer", Null)>>)}

\* the bodies the server may send with a success status, by query
Bodies(req, sh) ==
    CASE req.query = "paginated" ->
            {b.data : b \in Pages(req.variables["page"], sh)}
      [] req.query = "show" -> ShowBodies
      [] req.query = "studios" -> StudioBodies
      [] req.query = "raw" -> RawBodies

\* the value of a missing Retry-After header
NoHeader == -1

\* the responses the server may give: success with a body, an error status,
\* or a rate limit with or without a Retry-After header
Responses(req, sh, given) ==
    {[status |-> 200, retry |-> NoHeader, data |-> b] : b \in Bodies(req, sh)}
    \cup {[status |-> s, retry |-> NoHeader, data |-> Null] : s \in {404, 500}}
    \cup (IF given < MaxRetries
          THEN {[status |-> 429, retry |-> r, data |-> Null] : r \in {NoHeader, 0, 3}}
          ELSE {})

\* the page the server built for a body (the environment's own record of it)
ServedPage(req, sh, body) ==
    CHOOSE b \in Pages(req.variables["page"], sh) : b.data = body

-----------------------------------------------------------------------------
(* utils.py: safe_post_request.                                            *)

URL == "https://graphql.anilist.co"
MAX_PAGE_SIZE == 50

\* requests.post(URL, json=post_json, headers={'Authorization': oauth_token}):
\* what goes on the wire
PostRequest(req) ==
    [url |-> URL, query |-> req.query, variables |-> req.variables,
     authorization |-> req.token]

\* line 24: the resend carries the same body and the same header
ResendRequest(req) == PostRequest(req)

\* a variant of the loop test that also retries error statuses
RetryOnAnyError(resp) == resp.status >= 400

\* `while response.status_code == 429`
RateLimited(resp) == resp.status = 429

\* a variant of the wait without the one-second margin
RetryAfterNoMargin(resp) ==
    IF resp.retry # NoHeader THEN resp.retry ELSE 5

\* the seconds to sleep after a 429
RetryAfter(resp) ==
    IF resp.retry # NoHeader THEN resp.retry + 1 ELSE 5

\* response.raise_for_status(): whether it raises (a 4xx or 5xx status)
raise_for_status(resp) == 400 <= resp.status /\ resp.status < 600

\* response.json()['data']
ResponseData(resp) == resp.data

\* the environment's record of a successfully served page of a paginated query
Serve(req, resp) ==
    IF req.query = "paginated" /\ resp.status = 200
    THEN Append(served, [page |-> req.variables["page"],
                         kind |-> ServedPage(req, shape, resp.data).kind,
                         items |-> ServedPage(req, shape, resp.data).items,
                         hnp |-> ServedPage(req, shape, resp.data).hnp])
    ELSE served

callVars == <<op, post_json, variables, paginated_variables, page_num, out_list, shape,
              total_queries, report, callStart>>

\* line 12: the first POST of a call
Post ==
    /\ pc = "post"
    /\ \E resp \in Responses(post_json, shape, limited) :
        /\ response' = resp
        /\ sent' = Append(sent, [req |-> PostRequest(post_json), status |-> resp.status])
        /\ served' = Serve(post_json, resp)
        /\ n429' = IF resp.status = 429 THEN n429 + 1 ELSE n429
        /\ limited' = IF resp.status = 429 THEN limited + 1 ELSE limited
    /\ slept' = 0
    /\ pc' = "check"
    /\ UNCHANGED <<callVars, ret, result, outcome, waits>>
    /\ UNCHANGED <<isectVars, tallyVars, mapVars>>

\* lines 15-23: the response is a 429; work out the wait and sleep
RateLimitWait ==
    /\ pc = "check"
    /\ RateLimited(response)
    /\ slept' = RetryAfter(response)
    /\ waits' = waits + 1
    /\ pc' = "resend"
    /\ UNCHANGED <<callVars, response, ret, result, outcome, sent, n429, served, limited>>
    /\ UNCHANGED <<isectVars, tallyVars, mapVars>>

\* line 24: POST the same request again
Resend ==
    /\ pc = "resend"
    /\ \E resp \in Responses(post_json, shape, limited) :
        /\ response' = resp
        /\ sent' = Append(sent, [req |-> ResendRequest(post_json), status |-> resp.status])
        /\ served' = Serve(post_json, resp)
        /\ n429' = IF resp.status = 429 THEN n429 + 1 ELSE n429
        /\ limited' = IF resp.status = 429 THEN limited + 1 ELSE limited
    /\ slept' = 0
    /\ pc' = "check"
    /\ UNCHANGED <<callVars, ret, result, outcome, waits>>
    /\ UNCHANGED <<isectVars, tallyVars, mapVars>>

\* lines 26-28: not a 429; raise on an error status, else return the data.
\* No caller catches the error: it ends the operation.
Return ==
    /\ pc = "check"
    /\ ~RateLimited(response)
    /\ IF raise_for_status(response)
       THEN /\ pc' = "done"
            /\ outcome' = "HTTPError"
            /\ UNCHANGED ret
       ELSE /\ pc' = "returned"
            /\ ret' = ResponseData(response)
            /\ UNCHANGED outcome
    /\ UNCHANGED <<callVars, response, result, sent, n429, waits, slept, served,
                   limited>>
    /\ UNCHANGED <<isectVars, tallyVars, mapVars>>

-----------------------------------------------------------------------------
(* The callers of safe_post_request.                                       *)

NoResult == [t |-> "unset"]
NoResponse == [status |-> 0, retry |-> NoHeader, data |-> Null]
NoRequest == [query |-> "none", variables |-> <<>>, token |-> None]

Tokens == {None, "token"}
\* the variables a caller passes: with and without page and perPage of its own
CallerVariables == {[mediaId |-> 1], [mediaId |-> 1, page |-> 7, perPage |-> 10]}
\* the calls of depaginated_request the model makes
DepaginatedCalls ==
    {[variables |-> [mediaId |-> 1], token |-> None],
     [variables |-> [mediaId |-> 1, page |-> 7, perPage |-> 10], token |-> "token"]}
Shapes == [depth : 0..MaxDepth, order : {"pageInfoFirst", "dataFirst"}]
NoShape == [depth |-> 0, order |-> "pageInfoFirst"]

\* entering safe_post_request with the request `req`
BeginSend(req) ==
    /\ post_json' = req
    /\ pc' = "post"
    /\ callStart' = Len(sent)
    /\ n429' = 0
    /\ waits' = 0
    /\ slept' = 0

\* a direct call of safe_post_request(post_json, oauth_token)
CallSafePostRequest ==
    /\ pc = "idle"
    /\ op' = "send"
    /\ \E v \in CallerVariables, tok \in Tokens :
        BeginSend([query |-> "raw", variables |-> v, token |-> tok])
    /\ UNCHANGED <<response, ret, variables, paginated_variables, page_num, out_list, result,
                   outcome, total_queries, report, sent, shape, served,
                   limited>>
    /\ UNCHANGED <<isectVars, tallyVars, mapVars>>

\* the direct caller receives the data field
SendReturned ==
    /\ pc = "returned"
    /\ op = "send"
    /\ result' = ret
    /\ outcome' = "returned"
    /\ pc' = "done"
    /\ UNCHANGED <<op, post_json, response, ret, variables, paginated_variables, page_num,
                   out_list, total_queries, report, sent, callStart, n429, waits,
                   slept, shape, served, limited>>
    /\ UNCHANGED <<isectVars, tallyVars, mapVars>>

-----------------------------------------------------------------------------
(* utils.py: depaginated_request.                                          *)

\* a variant that merges the other way round: {'perPage': ..., **variables}
KeepCallerPerPage(vs) ==
    [k \in DOMAIN vs \cup {"perPage"} |->
        IF k \in DOMAIN vs THEN vs[k] ELSE MAX_PAGE_SIZE]

\* lines 37-40: {**variables, 'perPage': MAX_PAGE_SIZE}
PaginatedVariables(vs) ==
    [k \in DOMAIN vs \cup {"perPage"} |->
        IF k = "perPage" THEN MAX_PAGE_SIZE ELSE vs[k]]

\* line 46: paginated_variables['page'] = page_num
SetPage(pv, n) ==
    [k \in DOMAIN pv \cup {"page"} |-> IF k = "page" THEN n ELSE pv[k]]

\* line 44: pages are 1-indexed
FirstPage == 1

\* line 65: page_num += 1
NextPage(n) == n + 1

RECURSIVE Unwrap(_)
\* lines 52-56: descend through single-key records until one holds pageInfo
Unwrap(rd) ==
    IF rd.t # "obj" THEN [err |-> "TypeError", val |-> Null]
    ELSE IF HasKey(rd, "pageInfo") THEN [err |-> "none", val |-> rd]
    ELSE IF Len(rd.kv) = 0 THEN [err |-> "AssertionError", val |-> Null]
    ELSE IF Len(rd.kv) # 1 THEN [err |-> "AssertionError", val |-> Null]
    ELSE Unwrap(rd.kv[1].v)

\* a variant of the final check that accepts more than two keys
AtLeastTwoKeys(rd) == Len(rd.kv) >= 2

\* line 59: the final record holds exactly two keys
FinalOk(rd) == Len(rd.kv) = 2

\* line 60: next(v for k, v in response_data.items() if k != 'pageInfo')
NonPageInfo(rd) ==
    rd.kv[CHOOSE i \in 1..Len(rd.kv) :
            /\ rd.kv[i].k # "pageInfo"
            /\ \A j \in 1..(i - 1) : rd.kv[j].k = "pageInfo"].v

\* a variant of the accumulation that skips items already collected
ExtendDistinct(out, xs) ==
    out \o SelectSeq(xs, LAMBDA x : \A i \in 1..Len(out) : out[i] # x)

\* line 60: out_list.extend(...)
Extend(out, xs) == out \o xs

\* line 62: response_data['pageInfo']['hasNextPage']
HasNextPage(rd) == Get(Get(rd, "pageInfo"), "hasNextPage").b

\* lines 52-62 for one page: the error raised (or "none"), the accumulator
\* and whether another page follows
DepaginateStep(out, data) ==
    LET u == Unwrap(data) IN
    IF u.err # "none" THEN [err |-> u.err, out |-> out, more |-> FALSE]
    ELSE IF ~FinalOk(u.val)
         THEN [err |-> "AssertionError", out |-> out, more |-> FALSE]
         ELSE [err |-> "none",
               out |-> Extend(out, NonPageInfo(u.val).xs),
               more |-> HasNextPage(u.val)]

\* lines 37-47: set up the accumulator and request page 1
CallDepaginatedRequest ==
    /\ pc = "idle"
    /\ op' = "fetch_all"
    /\ \E c \in DepaginatedCalls, sh \in Shapes :
        /\ shape' = sh
        /\ variables' = c.variables
        /\ paginated_variables' = SetPage(PaginatedVariables(c.variables), FirstPage)
        /\ BeginSend([query |-> "paginated",
                      variables |-> SetPage(PaginatedVariables(c.variables), FirstPage),
                      token |-> c.token])
    /\ out_list' = <<>>
    /\ page_num' = FirstPage
    /\ UNCHANGED <<response, ret, result, outcome, total_queries, report, sent,
                   served, limited>>
    /\ UNCHANGED <<isectVars, tallyVars, mapVars>>

\* lines 52-65, and lines 46-47 of the next iteration: unwrap the page, extend
\* the accumulator, then return it or request the next page
ProcessPage ==
    /\ pc = "returned"
    /\ op = "fetch_all"
    /\ LET st == DepaginateStep(out_list, ret) IN
        IF st.err # "none"
        THEN /\ outcome' = st.err
             /\ pc' = "done"
             /\ UNCHANGED <<out_list, result, page_num, paginated_variables,
                            post_json, callStart, n429, waits, slept>>
        ELSE /\ out_list' = st.out
             /\ IF ~st.more
                THEN /\ result' = st.out
                     /\ outcome' = "returned"
                     /\ pc' = "done"
                     /\ UNCHANGED <<page_num, paginated_variables, post_json,
                                    callStart, n429, waits, slept>>
                ELSE /\ page_num' = NextPage(page_num)
                     /\ paginated_variables' =
                            SetPage(paginated_variables, NextPage(page_num))
                     /\ BeginSend([post_json EXCEPT !.variables =
                            SetPage(paginated_variables, NextPage(page_num))])
                     /\ UNCHANGED <<result, outcome>>
    /\ UNCHANGED <<op, response, ret, variables, total_queries, report, sent, shape,
                   served, limited>>
    /\ UNCHANGED <<isectVars, tallyVars, mapVars>>

-----------------------------------------------------------------------------
(* compare_staff.py: get_show and get_show_studios.                        *)

\* a dict keyed by id, as the sequence of its entries in insertion order:
\* d[e.id] = e keeps the position of a key already present
DictPut(d, e) ==
    IF \E i \in 1..Len(d) : d[i].id = e.id
    THEN [i \in 1..Len(d) |-> IF d[i].id = e.id THEN e ELSE d[i]]
    ELSE Append(d, e)

RECURSIVE DictUnion(_, _)
\* a | b: a's entries, b's values winning, then b's other entries
DictUnion(a, b) ==
    IF b = <<>> THEN a ELSE DictUnion(DictPut(a, Head(b)), Tail(b))

\* lines 28-38: the lookup's result for the data field
ShowResult(data) ==
    IF data = Null THEN [err |-> "none", val |-> Null]
    ELSE LET m == Get(data, "Media")
             title == IF m.english # None THEN m.english ELSE m.romaji
         IN IF title = None
            THEN [err |-> "AssertionError", val |-> Null]
            ELSE [err |-> "none", val |-> [t |-> "show", id |-> m.id, title |-> title]]

RECURSIVE StudioDict(_, _)
\* lines 63-67: the studios of one kind, keyed by id
StudioDict(edges, main) ==
    IF edges = <<>> THEN <<>>
    ELSE LET e == edges[Len(edges)]
             rest == StudioDict(SubSeq(edges, 1, Len(edges) - 1), main)
         IN IF e.isMain = main
            THEN DictPut(rest, [id |-> e.id, name |-> e.name,
                                roles |-> <<IF main THEN "Main" ELSE "Supporting">>])
            ELSE rest

\* lines 59-69: main studios first, then supporting ones
StudiosResult(data) ==
    IF data = Null THEN [err |-> "TypeError", val |-> <<>>]
    ELSE LET edges == Get(Get(Get(data, "Media"), "studios"), "edges").xs
         IN [err |-> "none",
             val |-> DictUnion(StudioDict(edges, TRUE), StudioDict(edges, FALSE))]

\* get_show(search, sort_by): line 28
CallGetShow ==
    /\ pc = "idle"
    /\ op' = "get_show"
    /\ \E sort \in {"SEARCH_MATCH", "POPULARITY_DESC"} :
        BeginSend([query |-> "show",
                   variables |-> [search |-> "show", sort |-> sort],
                   token |-> None])
    /\ UNCHANGED <<response, ret, variables, paginated_variables, page_num, out_list, result,
                   outcome, total_queries, report, sent, shape, served,
                   limited>>
    /\ UNCHANGED <<isectVars, tallyVars, mapVars>>

\* get_show_studios(show_id): line 63
CallGetShowStudios ==
    /\ pc = "idle"
    /\ op' = "get_show_studios"
    /\ BeginSend([query |-> "studios", variables |-> [mediaId |-> 10],
                  token |-> None])
    /\ UNCHANGED <<response, ret, variables, paginated_variables, page_num, out_list, result,
                   outcome, total_queries, report, sent, shape, served,
                   limited>>
    /\ UNCHANGED <<isectVars, tallyVars, mapVars>>

\* lines 29-38 of get_show, lines 63-69 of get_show_studios
LookupReturned ==
    /\ pc = "returned"
    /\ op \in {"get_show", "get_show_studios"}
    /\ LET r == IF op = "get_show" THEN ShowResult(ret) ELSE StudiosResult(ret) IN
        IF r.err # "none"
        THEN outcome' = r.err /\ UNCHANGED result
        ELSE outcome' = "returned" /\ result' = r.val
    /\ pc' = "done"
    /\ UNCHANGED <<op, post_json, response, ret, variables, paginated_variables, page_num,
                   out_list, total_queries, report, sent, callStart, n429, waits,
                   slept, shape, served, limited>>
    /\ UNCHANGED <<isectVars, tallyVars, mapVars>>

-----------------------------------------------------------------------------
(* compare_seasons.py, line 89: the diagnostic report.                     *)

\* reading safe_post_request.total_queries: nothing in utils.py ever sets the
\* attribute, so the read raises AttributeError
ReportTotalQueries ==
    /\ pc = "done"
    /\ outcome = "returned"
    /\ report' = IF total_queries.defined THEN "printed" ELSE "AttributeError"
    /\ pc' = "exit"
    /\ UNCHANGED <<op, post_json, response, ret, variables, paginated_variables, page_num,
                   out_list, result, outcome, total_queries, sent, callStart, n429,
                   waits, slept, shape, served, limited>>
    /\ UNCHANGED <<isectVars, tallyVars, mapVars>>

-----------------------------------------------------------------------------
(* compare_staff.py: dict_intersection and its use by main.                *)

\* the keys of a dict, in its order
Keys(d) == [i \in 1..Len(d) |-> d[i].id]

\* `k in d`
InDict(k, d) == \E i \in 1..Len(d) : d[i].id = k

\* a variant that looks at the second dict only
IntersectFirstTwo(dicts) ==
    IF dicts = <<>> THEN <<>>
    ELSE SelectSeq(Keys(dicts[1]),
                   LAMBDA k : \A j \in 2..Len(dicts) : j = 2 => InDict(k, dicts[j]))

\* lines 185-189
dict_intersection(dicts) ==
    IF dicts = <<>> THEN <<>>
    ELSE SelectSeq(Keys(dicts[1]),
                   LAMBDA k : \A j \in 2..Len(dicts) : InDict(k, dicts[j]))

\* the shows a comparison takes
MaxDicts == 3

StaffIds == {1, 2, 3}
StaffEntry(id) == [id |-> id, name |-> "name", roles |-> <<"role">>]

\* the staff dicts of a show: any distinct ids, in any order
StaffDicts ==
    {[i \in DOMAIN f |-> StaffEntry(f[i])] :
        f \in {g \in UNION {[1..m -> StaffIds] : m \in 0..Cardinality(StaffIds)} :
                 \A a, b \in DOMAIN g : a # b => g[a] # g[b]}}

\* lines 220-222: another show's staff dict is collected
CollectShow ==
    /\ ipc = "collect"
    /\ Len(show_staff_dicts) < MaxDicts
    /\ \E d \in StaffDicts : show_staff_dicts' = Append(show_staff_dicts, d)
    /\ UNCHANGED <<common_staff_ids, ipc>>
    /\ UNCHANGED <<reqVars, tallyVars, mapVars>>

\* line 275: the common staff of the collected dicts
FindCommon ==
    /\ ipc = "collect"
    /\ common_staff_ids' = dict_intersection(show_staff_dicts)
    /\ ipc' = "listed"
    /\ UNCHANGED show_staff_dicts
    /\ UNCHANGED <<reqVars, tallyVars, mapVars>>

-----------------------------------------------------------------------------
(* compare_staff.py: the affinity search of main, lines 226-253.           *)

\* the staff of the given show
MaxStaff == 3
\* the credits the server lists for one staff id
MaxCredits == 2
\* args.top
MaxTop == 2

\* the given show, as the API returns it
Seed == Media(10, "Seed", "Shido")

\* the shows of the catalog, as the API returns them
Catalog == {Seed, Media(20, None, "Bi"), Media(30, "C", "Shi")}

\* the paginated credits of a staff id: any shows, repeats included
CreditLists == UNION {[1..n -> Catalog] : n \in 0..MaxCredits}

\* the staff ids of the given show's dict, in its order
RosterOf(n) == [i \in 1..n |-> 100 - i]

\* line 177: the title, romaji when there is no english one
Title(show) == IF show.english # None THEN show.english ELSE show.romaji

\* line 177: the (id, title) tuple of a show
ShowKey(show) == <<show.id, Title(show)>>

\* lines 177-178: the set comprehension over the depaginated credits
get_production_staff_shows(credits) ==
    {ShowKey(credits[i]) : i \in 1..Len(credits)}

\* the orders in which a set may be iterated
Orderings(S) ==
    {f \in [1..Cardinality(S) -> S] : \A a, b \in DOMAIN f : a # b => f[a] # f[b]}

\* a variant that keeps the credits as a list, repeats included
CreditsAsList(credits) == {[i \in 1..Len(credits) |-> ShowKey(credits[i])]}

\* the orders in which Counter.update may meet the returned shows
UpdateOrders(credits) == Orderings(get_production_staff_shows(credits))

\* Counter: self[elem] = self.get(elem, 0) + 1
CounterAdd(counter, key) ==
    IF \E i \in 1..Len(counter) : counter[i].key = key
    THEN [i \in 1..Len(counter) |->
            IF counter[i].key = key
            THEN [counter[i] EXCEPT !.count = @ + 1] ELSE counter[i]]
    ELSE Append(counter, [key |-> key, count |-> 1])

RECURSIVE CounterUpdate(_, _)
\* Counter.update(iterable), the elements met in the order `elems`
CounterUpdate(counter, elems) ==
    IF elems = <<>> THEN counter
    ELSE CounterUpdate(CounterAdd(counter, Head(elems)), Tail(elems))

\* the first entry of the highest count
FirstMax(entries) ==
    CHOOSE i \in 1..Len(entries) :
        /\ \A j \in 1..Len(entries) : entries[j].count <= entries[i].count
        /\ \A j \in 1..(i - 1) : entries[j].count < entries[i].count

Remove(entries, i) ==
    SubSeq(entries, 1, i - 1) \o SubSeq(entries, i + 1, Len(entries))

RECURSIVE MostCommon(_, _)
\* Counter.most_common(n): the n entries of the highest counts, those of
\* equal counts in insertion order (heapq.nlargest is sorted(reverse=True)[:n])
MostCommon(entries, n) ==
    IF n <= 0 \/ entries = <<>> THEN <<>>
    ELSE <<entries[FirstMax(entries)]>>
            \o MostCommon(Remove(entries, FirstMax(entries)), n - 1)

\* a variant that skips the top match instead of looking for the id
DropTopMatch(items, id) == Tail(items)

\* line 247: item[0][0] != show_ids[0]
ExcludeShow(items, id) == SelectSeq(items, LAMBDA item : item.key[1] # id)

\* line 247
TopShows(counter, n, id) == ExcludeShow(MostCommon(counter, n + 1), id)

\* lines 226-235: one show was given; its staff dict and args.top
StartAffinity ==
    /\ tpc = "start"
    /\ \E n \in 0..MaxStaff : roster' = RosterOf(n)
    /\ top' \in 0..MaxTop
    /\ show_ids' = <<Seed.id>>
    /\ show_counts' = <<>>
    /\ staff_index' = 0
    /\ tpc' = "tally"
    /\ UNCHANGED <<top_shows, toutcome, fetched>>
    /\ UNCHANGED <<reqVars, isectVars, mapVars>>

\* lines 236-237: one staff id: fetch its credits and add them to the tally
TallyStaff ==
    /\ tpc = "tally"
    /\ staff_index < Len(roster)
    /\ \E credits \in CreditLists :
        /\ fetched' = Append(fetched,
                [staff |-> roster[staff_index + 1],
                 ids |-> {credits[i].id : i \in 1..Len(credits)}])
        /\ \E order \in UpdateOrders(credits) :
            show_counts' = CounterUpdate(show_counts, order)
    /\ staff_index' = staff_index + 1
    /\ UNCHANGED <<show_ids, roster, top, top_shows, tpc, toutcome>>
    /\ UNCHANGED <<reqVars, isectVars, mapVars>>

\* lines 239-253: after the loop: nothing but the show itself, or the ranking
\* and its top entry
Rank ==
    /\ tpc = "tally"
    /\ staff_index = Len(roster)
    /\ IF Len(show_counts) <= 1
       THEN /\ toutcome' = "no other shows"
            /\ UNCHANGED top_shows
       ELSE /\ top_shows' = TopShows(show_counts, top, show_ids[1])
            /\ toutcome' = IF TopShows(show_counts, top, show_ids[1]) = <<>>
                           THEN "IndexError" ELSE "compared"
    /\ tpc' = "done"
    /\ UNCHANGED <<show_ids, roster, top, staff_index, show_counts, fetched>>
    /\ UNCHANGED <<reqVars, isectVars, mapVars>>

-----------------------------------------------------------------------------
(* compare_staff.py: get_show_production_staff and get_show_voice_actors.  *)

\* the edges depaginated_request returns to one roster lookup
MaxEdges == 3

\* an edge of Media.staff, as the query at lines 76-93 selects it
StaffEdge(id, name, role) ==
    [node |-> [id |-> id, name |-> [full |-> name]], role |-> role]

\* the server may spell the name of one id differently from edge to edge
StaffEdges ==
    {StaffEdge(id, name, role) :
        id \in StaffIds, name \in {"Ito", "Itou"}, role \in {"Director", "Script"}}

\* an entry of voiceActorRoles, as the query at lines 112-137 selects it
VoiceActorRole(id, name, notes) ==
    [roleNotes |-> notes, voiceActor |-> [id |-> id, name |-> [full |-> name]]]

\* the voiceActorRoles of a character: none, one, two actors, one actor twice
VoiceActorRoleLists ==
    { <<>>,
      <<VoiceActorRole(1, "Paku", None)>>,
      <<VoiceActorRole(2, "Kugi", None), VoiceActorRole(1, "Paku R", "(young)")>>,
      <<VoiceActorRole(1, "Paku", None), VoiceActorRole(2, "Kugi", "(child)")>>,
      <<VoiceActorRole(2, "Kugi", None), VoiceActorRole(2, "Kugi", "(child)")>> }

\* an edge of Media.characters
CharacterEdge(role, character, vas) ==
    [role |-> role, node |-> [name |-> [full |-> character]], voiceActorRoles |-> vas]

CharacterEdges ==
    {CharacterEdge(c[1], c[2], vas) :
        c \in {<<"MAIN", "Ed">>, <<"SUPPORTING", "Al">>}, vas \in VoiceActorRoleLists}

\* the lists of at most MaxEdges edges of a set
EdgeSeqs(S) == UNION {[1..n -> S] : n \in 0..MaxEdges}

\* a variant that assigns the entry anew for every item
OverwriteEntry(dict, id, name, role) ==
    IF InDict(id, dict)
    THEN [i \in 1..Len(dict) |->
            IF dict[i].id = id THEN [id |-> id, name |-> name, roles |-> <<role>>]
            ELSE dict[i]]
    ELSE Append(dict, [id |-> id, name |-> name, roles |-> <<role>>])

\* lines 99-103 and 144-152: a new id gets an entry with its name and no
\* roles; the role is appended to the id's entry
AddRole(dict, id, name, role) ==
    LET d == IF InDict(id, dict) THEN dict
             ELSE Append(dict, [id |-> id, name |-> name, roles |-> <<>>])
    IN  [i \in 1..Len(d) |->
            IF d[i].id = id THEN [d[i] EXCEPT !.roles = Append(@, role)] ELSE d[i]]

\* lines 148-150: the character's role and name, and the notes if there are any
RoleDescr(edge, va_role) ==
    LET role_descr == edge.role \o " " \o edge.node.name.full
    IN  IF va_role.roleNotes # None THEN role_descr \o " " \o va_role.roleNotes
        ELSE role_descr

\* lines 142-152: the inner loop over the first n voice actor roles of an edge
RECURSIVE AddVoiceActorRoles(_, _, _)
AddVoiceActorRoles(dict, edge, n) ==
    IF n = 0 THEN dict
    ELSE LET va_role == edge.voiceActorRoles[n]
         IN  AddRole(AddVoiceActorRoles(dict, edge, n - 1),
                     va_role.voiceActor.id, va_role.voiceActor.name.full,
                     RoleDescr(edge, va_role))

\* lines 95-97: get_show_production_staff is called and gets its edges
CallGetShowProductionStaff ==
    /\ mpc = "start"
    /\ \E es \in EdgeSeqs(StaffEdges) : edge_list' = es
    /\ lookup' = "staff"
    /\ entity_dict' = <<>>
    /\ edge_index' = 0
    /\ mpc' = "loop"
    /\ UNCHANGED mret
    /\ UNCHANGED <<reqVars, isectVars, tallyVars>>

\* lines 139-141: get_show_voice_actors is called and gets its edges
CallGetShowVoiceActors ==
    /\ mpc = "start"
    /\ \E es \in EdgeSeqs(CharacterEdges) : edge_list' = es
    /\ lookup' = "voice"
    /\ entity_dict' = <<>>
    /\ edge_index' = 0
    /\ mpc' = "loop"
    /\ UNCHANGED mret
    /\ UNCHANGED <<reqVars, isectVars, tallyVars>>

\* lines 97-103: one iteration of the loop over the staff edges
MergeStaffEdge ==
    /\ mpc = "loop"
    /\ lookup = "staff"
    /\ edge_index < Len(edge_list)
    /\ LET edge == edge_list[edge_index + 1]
       IN  entity_dict' = AddRole(entity_dict, edge.node.id, edge.node.name.full,
                                  edge.role)
    /\ edge_index' = edge_index + 1
    /\ UNCHANGED <<edge_list, lookup, mpc, mret>>
    /\ UNCHANGED <<reqVars, isectVars, tallyVars>>

\* lines 141-152: one iteration of the loop over the character edges
MergeVoiceEdge ==
    /\ mpc = "loop"
    /\ lookup = "voice"
    /\ edge_index < Len(edge_list)
    /\ LET edge == edge_list[edge_index + 1]
       IN  entity_dict' = AddVoiceActorRoles(entity_dict, edge,
                                             Len(edge.voiceActorRoles))
    /\ edge_index' = edge_index + 1
    /\ UNCHANGED <<edge_list, lookup, mpc, mret>>
    /\ UNCHANGED <<reqVars, isectVars, tallyVars>>

\* lines 105 and 154: the dict is returned
ReturnDict ==
    /\ mpc = "loop"
    /\ edge_index = Len(edge_list)
    /\ mret' = entity_dict
    /\ mpc' = "done"
    /\ UNCHANGED <<edge_list, lookup, edge_index, entity_dict>>
    /\ UNCHANGED <<reqVars, isectVars, tallyVars>>

-----------------------------------------------------------------------------
(* The machines.                                                           *)

InitRequests ==
    /\ op = "none"
    /\ pc = "idle"
    /\ post_json = NoRequest
    /\ response = NoResponse
    /\ ret = Null
    /\ variables = <<>>
    /\ paginated_variables = <<>>
    /\ page_num = 0
    /\ out_list = <<>>
    /\ result = NoResult
    /\ outcome = "running"
    /\ total_queries = [defined |-> FALSE, value |-> 0]
    /\ report = "none"
    /\ sent = <<>>
    /\ callStart = 0
    /\ n429 = 0
    /\ waits = 0
    /\ slept = 0
    /\ shape = NoShape
    /\ served = <<>>
    /\ limited = 0

Next ==
    \/ CallSafePostRequest
    \/ CallDepaginatedRequest
    \/ CallGetShow
    \/ CallGetShowStudios
    \/ Post
    \/ RateLimitWait
    \/ Resend
    \/ Return
    \/ SendReturned
    \/ ProcessPage
    \/ LookupReturned
    \/ ReportTotalQueries

InitIntersection ==
    /\ show_staff_dicts = <<>>
    /\ common_staff_ids = <<>>
    /\ ipc = "collect"

InitAffinity ==
    /\ show_ids = <<>>
    /\ roster = <<>>
    /\ top = 0
    /\ staff_index = 0
    /\ show_counts = <<>>
    /\ top_shows = <<>>
    /\ tpc = "start"
    /\ toutcome = "running"
    /\ fetched = <<>>

InitMapping ==
    /\ edge_list = <<>>
    /\ lookup = "none"
    /\ edge_index = 0
    /\ entity_dict = <<>>
    /\ mpc = "start"
    /\ mret = <<>>

Init == InitRequests /\ InitIntersection /\ InitAffinity /\ InitMapping

\* the request primitive, the pagination engine and the lookups
Spec == Init /\ [][Next]_vars

NextIntersection ==
    \/ CollectShow
    \/ FindCommon

\* the comparison of the collected staff dicts
SpecIntersection == Init /\ [][NextIntersection]_vars

NextAffinity ==
    \/ StartAffinity
    \/ TallyStaff
    \/ Rank

\* the affinity search
SpecAffinity == Init /\ [][NextAffinity]_vars

NextMapping ==
    \/ CallGetShowProductionStaff
    \/ CallGetShowVoiceActors
    \/ MergeStaffEdge
    \/ MergeVoiceEdge
    \/ ReturnDict

\* the roster lookups
SpecMapping == Init /\ [][NextMapping]_vars

-----------------------------------------------------------------------------
(* Properties of the request primitive and the pagination engine.          *)

\* the POSTs the current send call has issued
CallPosts == Len(sent) - callStart

Finished == pc \in {"done", "exit"}

\* a status that is neither the rate limit nor a success
ErrorStatus(status) == status # 0 /\ status # 429 /\ ~(200 <= status /\ status < 300)

RECURSIVE ConcatItems(_)
\* the items of the pages, one page after the other
ConcatItems(pages) ==
    IF pages = <<>> THEN <<>>
    ELSE ConcatItems(SubSeq(pages, 1, Len(pages) - 1)) \o pages[Len(pages)].items

\* every page well formed, and all but the last reporting hasNextPage
WellFormedRun(pages) ==
    /\ Len(pages) >= 1
    /\ \A i \in 1..Len(pages) :
        /\ pages[i].kind = "good"
        /\ pages[i].hnp = (i < Len(pages))

\* C1: the request counter equals the number of HTTP POSTs issued so far,
\* 429 resends included, and the caller can read it.
C1_CounterCountsPosts ==
    /\ Len(sent) > 0 =>
        total_queries.defined /\ total_queries.value = Len(sent)
    /\ report # "AttributeError"

\* C2: every 429 is followed by exactly one wait (Retry-After + 1 seconds, or
\* 5 seconds without the header) and exactly one resend of the identical
\* request, and the call neither returns nor raises on a 429.
C2_RateLimitRetry ==
    /\ pc = "post" => CallPosts = 0 /\ waits = 0 /\ n429 = 0
    /\ pc = "check" =>
        /\ CallPosts = waits + 1
        /\ n429 = waits + (IF response.status = 429 THEN 1 ELSE 0)
    /\ pc = "resend" =>
        /\ response.status = 429
        /\ CallPosts = waits
        /\ n429 = waits
        /\ slept = IF response.retry = NoHeader THEN 5 ELSE response.retry + 1
    /\ (pc \in {"returned", "done", "exit"}) =>
        /\ response.status # 429
        /\ waits = n429
        /\ CallPosts = n429 + 1
    /\ \A i \in (callStart + 1)..Len(sent) :
        /\ sent[i].req = sent[callStart + 1].req
        /\ sent[i].req.authorization = post_json.token
        /\ sent[i].req.variables = post_json.variables
        /\ sent[i].req.query = post_json.query
        /\ (i < Len(sent) => sent[i].status = 429)

\* C2's case: the second 429 in a row, with Retry-After: 3, has been slept on.
C2_Witness ==
    /\ pc = "resend"
    /\ waits = 2
    /\ CallPosts = 2
    /\ response.retry = 3
    /\ slept = 4

C4_NullDataIsNoError ==
    (Finished /\ response.status = 200 /\ response.data = Null) =>
        /\ outcome = "returned"
        /\ ret = Null

\* C5: for well-formed pages, all but the last reporting hasNextPage, at any
\* wrapper depth, depaginated_request returns the concatenation of the pages'
\* items in page order.
C5_Concatenation ==
    (op = "fetch_all" /\ Finished /\ WellFormedRun(served)) =>
        /\ outcome = "returned"
        /\ result = ConcatItems(served)

\* C5's case: three pages below three wrappers, with a repeated item.
C5_Witness ==
    /\ op = "fetch_all"
    /\ outcome = "returned"
    /\ shape.depth = 3
    /\ shape.order = "dataFirst"
    /\ Len(served) = 3
    /\ result = <<"a", "b", "a", "a", "a", "b">>

\* C6: pages are requested in the order 1, 2, 3, ... with perPage = 50, a page
\* is requested again only after a 429, nothing is requested after a page
\* that reported hasNextPage = false, and the call returns only on such a page.
C6_PageOrder ==
    op = "fetch_all" =>
        /\ \A i \in 1..Len(sent) :
            /\ sent[i].req.variables["perPage"] = 50
            /\ sent[i].req.variables["page"] =
                 IF i = 1 THEN 1
                 ELSE IF sent[i - 1].status = 429
                      THEN sent[i - 1].req.variables["page"]
                      ELSE sent[i - 1].req.variables["page"] + 1
            /\ (i < Len(sent) => sent[i].status \in {200, 429})
        /\ \A k \in 1..Len(served) :
            /\ served[k].page = k
            /\ (k < Len(served) => served[k].kind = "good" /\ served[k].hnp)
        /\ (pc \in {"post", "resend"} => page_num = Len(served) + 1)
        /\ (outcome = "returned" =>
                /\ served # <<>>
                /\ served[Len(served)].kind = "good"
                /\ ~served[Len(served)].hnp)
        /\ ((pc \notin {"check", "returned"} /\ WellFormedRun(served)) =>
                outcome = "returned")

\* C6's case: the caller passed page and perPage of its own, three pages were
\* fetched and one of them twice.
C6_Witness ==
    /\ op = "fetch_all"
    /\ outcome = "returned"
    /\ "page" \in DOMAIN variables
    /\ Len(served) = 3
    /\ Len(sent) = 4

\* C7: a record with zero keys, or more than two keys at an unwrap step or at
\* the final level, ends depaginated_request with an AssertionError and no
\* result; items are only taken from a final record of pageInfo and one field.
C7_MalformedPagination ==
    /\ []((op = "fetch_all" /\ Finished /\ served # <<>>
            /\ served[Len(served)].kind \in
                 {"zeroKeys", "threeKeysFinal", "threeKeysUnwrap"}) =>
            /\ outcome = "AssertionError"
            /\ result = NoResult)
    /\ [][out_list' # out_list =>
            /\ served[Len(served)].kind = "good"
            /\ out_list' = out_list \o served[Len(served)].items]_vars

\* C7's case: a final record of three keys on the second page.
C7_Witness ==
    /\ op = "fetch_all"
    /\ outcome = "AssertionError"
    /\ result = NoResult
    /\ Len(served) = 2
    /\ out_list # <<>>
    /\ served[2].kind = "threeKeysFinal"

-----------------------------------------------------------------------------
(* Properties of the intersection and the affinity tally.                  *)

\* the position of key k in a dict it belongs to
KeyPos(d, k) == CHOOSE i \in 1..Len(d) : d[i].id = k

\* C8: dict_intersection gives no key for zero dicts; otherwise exactly the
\* keys of the first dict that every other dict has, each once, in the first
\* dict's order (all its keys when it is the only dict); the dicts stay as
\* they were.
C8_Intersection ==
    /\ [](ipc = "listed" =>
            IF show_staff_dicts = <<>> THEN common_staff_ids = <<>>
            ELSE /\ {common_staff_ids[i] : i \in 1..Len(common_staff_ids)} =
                        {k \in StaffIds :
                            \A j \in 1..Len(show_staff_dicts) :
                                \E e \in 1..Len(show_staff_dicts[j]) :
                                    show_staff_dicts[j][e].id = k}
                 /\ \A a, b \in 1..Len(common_staff_ids) :
                        a < b =>
                            KeyPos(show_staff_dicts[1], common_staff_ids[a])
                                < KeyPos(show_staff_dicts[1], common_staff_ids[b])
                 /\ (Len(show_staff_dicts) = 1 =>
                        common_staff_ids = Keys(show_staff_dicts[1])))
    /\ [][ipc' = "listed" => show_staff_dicts' = show_staff_dicts]_vars

\* C8's case: three dicts listing their keys in different orders, the third
\* lacking a key the first two share.
C8_Witness ==
    /\ ipc = "listed"
    /\ Len(show_staff_dicts) = 3
    /\ Keys(show_staff_dicts[1]) = <<3, 2, 1>>
    /\ Keys(show_staff_dicts[2]) = <<1, 2, 3>>
    /\ Keys(show_staff_dicts[3]) = <<1, 3>>
    /\ common_staff_ids = <<3, 1>>

\* the staff ids whose listed credits hold the show
CreditedStaff(id) == {i \in 1..Len(fetched) : id \in fetched[i].ids}

\* C9: each staff id is queried once, and the count of a show is the number
\* of staff ids whose credits hold it, however often they list it: no count
\* exceeds the number of staff, and no other show is counted.
C9_Tally ==
    /\ Len(fetched) = staff_index
    /\ \A i \in 1..Len(fetched) : fetched[i].staff = roster[i]
    /\ \A i, j \in 1..Len(roster) : i # j => roster[i] # roster[j]
    /\ \A i, j \in 1..Len(show_counts) :
            i # j => show_counts[i].key # show_counts[j].key
    /\ \A i \in 1..Len(show_counts) :
        /\ show_counts[i].count = Cardinality(CreditedStaff(show_counts[i].key[1]))
        /\ show_counts[i].count >= 1
        /\ show_counts[i].count <= Len(roster)
    /\ \A i \in 1..Len(fetched) : \A id \in fetched[i].ids :
            \E e \in 1..Len(show_counts) : show_counts[e].key[1] = id

\* C9's case: every staff id processed, two of three credited on a show.
C9_Witness ==
    /\ tpc = "done"
    /\ Len(roster) = 3
    /\ staff_index = 3
    /\ fetched[1].ids = {10, 20}
    /\ fetched[2].ids = {20}
    /\ fetched[3].ids = {10, 30}
    /\ \E i \in 1..Len(show_counts) :
            show_counts[i].key = <<20, "Bi">> /\ show_counts[i].count = 2

\* the rank of tally entry i: by count, then by insertion
RankOf(i) ==
    1 + Cardinality({j \in 1..Len(show_counts) :
            \/ show_counts[j].count > show_counts[i].count
            \/ show_counts[j].count = show_counts[i].count /\ j < i})

\* the tally entry of a ranked item
TallyPos(item) == CHOOSE i \in 1..Len(show_counts) : show_counts[i] = item

Ranked == tpc = "done" /\ toutcome # "no other shows"

\* C10: the ranked list is in non-increasing count order, equal counts in the
\* tally's insertion order; it holds no entry of the given show's id, and
\* every other show among the first top + 1 of the tally is kept.
C10_Ranking ==
    Ranked =>
        /\ \A a \in 1..Len(top_shows) :
                \E i \in 1..Len(show_counts) : show_counts[i] = top_shows[a]
        /\ \A a, b \in 1..Len(top_shows) :
                a < b =>
                    /\ top_shows[a].count >= top_shows[b].count
                    /\ TallyPos(top_shows[a]) # TallyPos(top_shows[b])
                    /\ (top_shows[a].count = top_shows[b].count =>
                            TallyPos(top_shows[a]) < TallyPos(top_shows[b]))
        /\ \A a \in 1..Len(top_shows) : top_shows[a].key[1] # show_ids[1]
        /\ \A i \in 1..Len(show_counts) :
                (show_counts[i].key[1] # show_ids[1] /\ RankOf(i) <= top + 1) =>
                    \E a \in 1..Len(top_shows) : top_shows[a] = show_counts[i]

\* C10's case: another show ties with the given show and ranks before it.
C10_Witness ==
    /\ Ranked
    /\ top = 1
    /\ show_counts = <<[key |-> <<20, "Bi">>, count |-> 2],
                       [key |-> <<10, "Seed">>, count |-> 2],
                       [key |-> <<30, "C">>, count |-> 1]>>
    /\ top_shows = <<[key |-> <<20, "Bi">>, count |-> 2]>>

\* the tally entries of another show than the given one
OtherShows == {i \in 1..Len(show_counts) : show_counts[i].key[1] # show_ids[1]}

Min(a, b) == IF a <= b THEN a ELSE b

\* C11: the ranked list, the given show excluded, has min(top, number of
\* other shows in the tally) entries, so never more than top, wherever the
\* given show ranks and also when the tally does not hold it.
C11_TopN ==
    Ranked => Len(top_shows) = Min(top, Cardinality(OtherShows))

\* C12: when no other show remains after the exclusion, the search ends with
\* "no other shows" and neither goes on with nor fails on an empty ranked
\* list; with another show in the tally it does not end that way.
C12_NoOtherShows ==
    tpc = "done" =>
        /\ (OtherShows = {} => toutcome = "no other shows")
        /\ (toutcome # "no other shows" => top_shows # <<>>)
        /\ toutcome # "IndexError"
        /\ (toutcome = "no other shows" => OtherShows = {})

-----------------------------------------------------------------------------
(* Properties of the roster lookups.                                       *)

\* the items an edge contributes: the id and name each resolves to, its role
ItemsOf(edge) ==
    IF lookup = "staff"
    THEN <<[id |-> edge.node.id, name |-> edge.node.name.full, role |-> edge.role]>>
    ELSE [j \in 1..Len(edge.voiceActorRoles) |->
            [id |-> edge.voiceActorRoles[j].voiceActor.id,
             name |-> edge.voiceActorRoles[j].voiceActor.name.full,
             role |-> RoleDescr(edge, edge.voiceActorRoles[j])]]

\* the items of the first n edges, in order
RECURSIVE ItemsUpTo(_)
ItemsUpTo(n) == IF n = 0 THEN <<>> ELSE ItemsUpTo(n - 1) \o ItemsOf(edge_list[n])

\* the first item of an id
FirstItem(items, id) ==
    CHOOSE k \in 1..Len(items) :
        items[k].id = id /\ \A j \in 1..(k - 1) : items[j].id # id

\* the roles of the items of an id, in item order
RolesOf(items, id) ==
    LET own == SelectSeq(items, LAMBDA x : x.id = id)
    IN  [k \in 1..Len(own) |-> own[k].role]

RECURSIVE TotalRoles(_)
TotalRoles(d) == IF d = <<>> THEN 0 ELSE Len(d[1].roles) + TotalRoles(Tail(d))

\* C13: at every point of a roster lookup the dict has one entry per id among
\* the items merged so far, in the order of the ids' first items, with the
\* name of the first item and the roles of the id's items in item order; the
\* roles are as many as the items, and the dict is returned as built.
C13_Merge ==
    LET items == ItemsUpTo(edge_index)
        d == entity_dict
    IN  /\ \A a, b \in 1..Len(d) : a # b => d[a].id # d[b].id
        /\ {d[i].id : i \in 1..Len(d)} = {items[k].id : k \in 1..Len(items)}
        /\ \A a, b \in 1..Len(d) :
              a < b => FirstItem(items, d[a].id) < FirstItem(items, d[b].id)
        /\ \A i \in 1..Len(d) :
              /\ d[i].name = items[FirstItem(items, d[i].id)].name
              /\ d[i].roles = RolesOf(items, d[i].id)
        /\ TotalRoles(d) = Len(items)
        /\ mpc = "done" => mret = d /\ edge_index = Len(edge_list)

\* a voice actor lookup has returned a dict of two actors where the first
\* actor's roles come from different edges, with another actor's item between
\* them, and a later item spells the first actor's name differently
C13_Witness ==
    LET items == ItemsUpTo(edge_index)
    IN  /\ mpc = "done"
        /\ lookup = "voice"
        /\ Len(mret) = 2
        /\ Len(mret[1].roles) >= 2
        /\ mret[1].roles[1] # mret[1].roles[2]
        /\ edge_index >= 2
        /\ \E a, b, c \in 1..Len(items) :
              /\ a < b /\ b < c
              /\ items[a].id = mret[1].id
              /\ items[b].id = mret[2].id
              /\ items[c].id = mret[1].id
              /\ items[c].name # mret[1].name

====
